---- MODULE Spec2Model ----
(***************************************************************************)
(* Gym-Tracker backend: the in-memory WorkoutStore (package store) and the *)
(* HTTP handlers of package handlers that validate requests and drive it.  *)
(*                                                                         *)
(* Every HTTP request runs on its own goroutine (net/http), so a request   *)
(* is a process that runs its handler once and ends with a response.       *)
(* Requests are numbered in arrival order.  Handlers are cut into steps at *)
(* the acquisitions of the store's RWMutex, the only points where requests *)
(* interact.  Go strings are sequences of one-character strings, so that   *)
(* strings.TrimSpace and time.Parse are computed, not assumed.             *)
(***************************************************************************)
EXTENDS Integers, Sequences, FiniteSets, TLC

VARIABLES nextID,     \* WorkoutStore.nextID
          workouts,   \* WorkoutStore.workouts: id -> Workout
          mu,         \* WorkoutStore.mu: [writer: 0 or a request, readers: set of requests]
          clock,      \* the last value time.Now() returned
          arrived,    \* number of requests accepted so far
          req,        \* request -> the HTTP request it carries
          pc,         \* request -> position of its handler
          wk,         \* request -> POST handler's local wk, <<>> until it is built
          cur,        \* request -> PUT handler's local cur, <<>> until it is fetched
          updated,    \* request -> PUT handler's local updated, <<>> until it is validated
          resp,       \* request -> the response written
          lastWriter, \* the request that acquired mu.Lock() last, 0 before the first (history)
          heap,       \* address -> backing array of a slice, or the cell of a pointer
          held,       \* the Workout values a direct caller of the store holds
          timer,      \* ActiveWorkoutScreen: the timer's state, refs and the duration at Finish
          dateNow,    \* the device clock, Date.now()
          ranMs       \* the time the timer has spent running (history)

vars == <<nextID, workouts, mu, clock, arrived, req, pc, wk, cur, updated, resp, lastWriter,
          heap, held, timer, dateNow, ranMs>>

\* the variables of the mobile screen
screenVars == <<timer, dateNow, ranMs>>

----------------------------------------------------------------------------
(* Bounds *)

NReqs == 3

Reqs == 1..NReqs

----------------------------------------------------------------------------
(* Go strings *)

ZeroTime == 0

IsSpace(c) == c \in {" ", "\t", "\n", "\r"}

RECURSIVE TrimLeft(_)
TrimLeft(s) ==
    IF s # <<>> /\ IsSpace(Head(s)) THEN TrimLeft(Tail(s)) ELSE s

RECURSIVE TrimRight(_)
TrimRight(s) ==
    IF s # <<>> /\ IsSpace(s[Len(s)]) THEN TrimRight(SubSeq(s, 1, Len(s) - 1)) ELSE s

\* strings.TrimSpace
TrimSpace(s) == TrimRight(TrimLeft(s))

Digits == <<"0", "1", "2", "3", "4", "5", "6", "7", "8", "9">>

isDigit(c) == \E i \in 1..10 : Digits[i] = c

DigitVal(c) == (CHOOSE i \in 1..10 : Digits[i] = c) - 1

\* time.atoi on a run of digits; -1 when a character is not a digit
atoi(s) ==
    IF \E i \in 1..Len(s) : ~isDigit(s[i]) THEN -1
    ELSE IF Len(s) = 4
         THEN DigitVal(s[1]) * 1000 + DigitVal(s[2]) * 100 + DigitVal(s[3]) * 10 + DigitVal(s[4])
         ELSE DigitVal(s[1]) * 10 + DigitVal(s[2])

isLeap(year) == year % 4 = 0 /\ (year % 100 # 0 \/ year % 400 = 0)

daysIn(month, year) ==
    IF month = 2 THEN (IF isLeap(year) THEN 29 ELSE 28)
    ELSE IF month \in {4, 6, 9, 11} THEN 30 ELSE 31

\* time.Parse("2006-01-02", s): TRUE when it returns a non-nil error
ParseDateErr(s) ==
    IF Len(s) # 10 THEN TRUE
    ELSE LET year  == atoi(SubSeq(s, 1, 4))
             month == atoi(SubSeq(s, 6, 7))
             day   == atoi(SubSeq(s, 9, 10))
         IN  \/ year < 0
             \/ s[5] # "-"
             \/ month < 0
             \/ s[8] # "-"
             \/ day < 0
             \/ month <= 0 \/ 12 < month
             \/ day < 1 \/ day > daysIn(month, year)

----------------------------------------------------------------------------
(* package models *)

\* models.Workout{}: the zero value
ZeroWorkout ==
    [ID |-> 0, Title |-> <<>>, Date |-> <<>>, Notes |-> <<>>, Exercises |-> <<>>,
     CreatedAt |-> ZeroTime, UpdatedAt |-> ZeroTime]

CreateFields == {"title", "date", "notes", "exercises"}

UpdateFields == {"title", "date", "notes", "exercises"}

\* ReadJSON without DisallowUnknownFields
ReadJSONErr_allowUnknown(body, fields) == body.malformed

\* httpjson.ReadJSON: TRUE when Decode returns an error (malformed body, or a
\* field the destination struct does not have: DisallowUnknownFields)
ReadJSONErr(body, fields) ==
    \/ body.malformed
    \/ ~(DOMAIN body.obj \subseteq fields)

\* the decoded models.CreateWorkoutRequest: absent fields keep their zero value
DecodeCreate(obj) ==
    [Title     |-> IF "title" \in DOMAIN obj THEN obj.title ELSE <<>>,
     Date      |-> IF "date" \in DOMAIN obj THEN obj.date ELSE <<>>,
     Notes     |-> IF "notes" \in DOMAIN obj THEN obj.notes ELSE <<>>,
     Exercises |-> IF "exercises" \in DOMAIN obj THEN obj.exercises ELSE <<>>]

\* the decoded models.UpdateWorkoutRequest: a pointer field is <<>> (nil) or <<v>>
DecodeUpdate(obj) ==
    [Title     |-> IF "title" \in DOMAIN obj THEN <<obj.title>> ELSE <<>>,
     Date      |-> IF "date" \in DOMAIN obj THEN <<obj.date>> ELSE <<>>,
     Notes     |-> IF "notes" \in DOMAIN obj THEN <<obj.notes>> ELSE <<>>,
     Exercises |-> IF "exercises" \in DOMAIN obj THEN <<obj.exercises>> ELSE <<>>]

----------------------------------------------------------------------------
(* package handlers: validation.  An error message is a tuple of its parts, *)
(* <<>> is the empty message.                                               *)

\* the checks on one set, from set index si (0-based) on
RECURSIVE validateSets(_, _, _)
validateSets(name, sets, si) ==
    IF si >= Len(sets) THEN <<>>
    ELSE LET set == sets[si + 1] IN
         IF set.Reps <= 0
         THEN <<"reps must be > 0 for exercise: ", name, ", set index ", si>>
         ELSE IF set.Weight # <<>> /\ set.Weight[1] < 0
         THEN <<"weight must be >= 0 for exercise: ", name, ", set index ", si>>
         ELSE validateSets(name, sets, si + 1)

RECURSIVE validateFrom(_, _)
validateFrom(exercises, i) ==
    IF i >= Len(exercises) THEN <<>>
    ELSE LET ex   == exercises[i + 1]
             name == TrimSpace(ex.Name)
         IN  IF name = <<>>
             THEN <<"exercise name is required (at index ", i, ")">>
             ELSE IF Len(ex.Sets) = 0
             THEN <<"exercise sets must have at least 1 set for: ", name>>
             ELSE LET e == validateSets(name, ex.Sets, 0) IN
                  IF e # <<>> THEN e ELSE validateFrom(exercises, i + 1)

\* the exercise checks stopping after the first exercise
validateExercises_firstOnly(exercises) ==
    validateFrom(IF exercises = <<>> THEN <<>> ELSE <<exercises[1]>>, 0)

validateExercises(exercises) == validateFrom(exercises, 0)

\* the POST checks with the date checks ahead of the title check
PostValidate_dateFirst(rq) ==
    IF rq.Date = <<>> THEN <<"date is required (YYYY-MM-DD)">>
    ELSE IF ParseDateErr(rq.Date) THEN <<"date must be YYYY-MM-DD">>
    ELSE IF rq.Title = <<>> THEN <<"title is required">>
    ELSE validateExercises(rq.Exercises)

\* POST: the checks on the trimmed request, first failure wins
PostValidate(rq) ==
    IF rq.Title = <<>> THEN <<"title is required">>
    ELSE IF rq.Date = <<>> THEN <<"date is required (YYYY-MM-DD)">>
    ELSE IF ParseDateErr(rq.Date) THEN <<"date must be YYYY-MM-DD">>
    ELSE validateExercises(rq.Exercises)

\* the merge appending patched exercises to the current ones
PutMerge_appendExercises(current, rq) ==
    [current EXCEPT
       !.Title     = IF rq.Title # <<>> THEN TrimSpace(rq.Title[1]) ELSE @,
       !.Date      = IF rq.Date # <<>> THEN TrimSpace(rq.Date[1]) ELSE @,
       !.Notes     = IF rq.Notes # <<>> THEN TrimSpace(rq.Notes[1]) ELSE @,
       !.Exercises = IF rq.Exercises # <<>> THEN @ \o rq.Exercises[1] ELSE @]

\* PUT: the copy of cur with the fields present in the patch overwritten
PutMerge(current, rq) ==
    [current EXCEPT
       !.Title     = IF rq.Title # <<>> THEN TrimSpace(rq.Title[1]) ELSE @,
       !.Date      = IF rq.Date # <<>> THEN TrimSpace(rq.Date[1]) ELSE @,
       !.Notes     = IF rq.Notes # <<>> THEN TrimSpace(rq.Notes[1]) ELSE @,
       !.Exercises = IF rq.Exercises # <<>> THEN rq.Exercises[1] ELSE @]

\* PUT: title and date of the merged copy are trimmed again before the checks
PutTrim(u) ==
    [u EXCEPT !.Title = TrimSpace(@), !.Date = TrimSpace(@)]

\* the PUT checks without the exercise validation
PutValidate_noExercises(u) ==
    IF u.Title = <<>> THEN <<"title cannot be empty">>
    ELSE IF u.Date = <<>> THEN <<"date cannot be empty">>
    ELSE IF ParseDateErr(u.Date) THEN <<"date must be YYYY-MM-DD">>
    ELSE <<>>

\* the PUT checks without the date format check
PutValidate_noDateFormat(u) ==
    IF u.Title = <<>> THEN <<"title cannot be empty">>
    ELSE IF u.Date = <<>> THEN <<"date cannot be empty">>
    ELSE validateExercises(u.Exercises)

\* PUT: the checks on the merged copy, first failure wins
PutValidate(u) ==
    IF u.Title = <<>> THEN <<"title cannot be empty">>
    ELSE IF u.Date = <<>> THEN <<"date cannot be empty">>
    ELSE IF ParseDateErr(u.Date) THEN <<"date must be YYYY-MM-DD">>
    ELSE validateExercises(u.Exercises)

----------------------------------------------------------------------------
(* package store: the bodies of the WorkoutStore methods, between Lock and *)
(* Unlock.  Each gives the method's return value and the fields it leaves.  *)

\* Create numbering by the size of the map instead of the counter
Create_lenID(w, now) ==
    LET id == Cardinality(DOMAIN workouts) + 1
        w2 == [w EXCEPT !.ID = id, !.CreatedAt = now, !.UpdatedAt = now]
    IN  [ret      |-> w2,
         workouts |-> [i \in DOMAIN workouts \cup {id} |->
                          IF i = id THEN w2 ELSE workouts[i]],
         nextID   |-> nextID + 1]

\* Create without s.nextID++
Create_noIncrement(w, now) ==
    LET w2 == [w EXCEPT !.ID = nextID, !.CreatedAt = now, !.UpdatedAt = now]
    IN  [ret      |-> w2,
         workouts |-> [i \in DOMAIN workouts \cup {nextID} |->
                          IF i = nextID THEN w2 ELSE workouts[i]],
         nextID   |-> nextID]

\* Create storing the record before it stamps UpdatedAt
Create_noUpdatedAt(w, now) ==
    LET w2 == [w EXCEPT !.ID = nextID, !.CreatedAt = now]
    IN  [ret      |-> w2,
         workouts |-> [i \in DOMAIN workouts \cup {nextID} |->
                          IF i = nextID THEN w2 ELSE workouts[i]],
         nextID   |-> nextID + 1]

\* WorkoutStore.Create
Create(w, now) ==
    LET w2 == [w EXCEPT !.ID = nextID, !.CreatedAt = now, !.UpdatedAt = now]
    IN  [ret      |-> w2,
         workouts |-> [i \in DOMAIN workouts \cup {nextID} |->
                          IF i = nextID THEN w2 ELSE workouts[i]],
         nextID   |-> nextID + 1]

\* WorkoutStore.Get
Get(id) ==
    IF id \in DOMAIN workouts
    THEN [w |-> workouts[id], ok |-> TRUE]
    ELSE [w |-> ZeroWorkout, ok |-> FALSE]

\* Update returning the record as upd gave it, before the stamp
Update_retUnstamped(id, upd, now) ==
    IF id \notin DOMAIN workouts
    THEN [ret |-> ZeroWorkout, err |-> TRUE, workouts |-> workouts]
    ELSE LET new == [upd[workouts[id]] EXCEPT !.UpdatedAt = now]
         IN  [ret |-> upd[workouts[id]], err |-> FALSE,
              workouts |-> [workouts EXCEPT ![id] = new]]

\* Update writing the record also when the id is absent
Update_upsert(id, upd, now) ==
    LET old == IF id \in DOMAIN workouts THEN workouts[id] ELSE ZeroWorkout
        new == [upd[old] EXCEPT !.UpdatedAt = now]
    IN  [ret |-> new, err |-> FALSE,
         workouts |-> [i \in DOMAIN workouts \cup {id} |->
                          IF i = id THEN new ELSE workouts[i]]]

\* Update stamping CreatedAt along with UpdatedAt
Update_restampCreated(id, upd, now) ==
    IF id \notin DOMAIN workouts
    THEN [ret |-> ZeroWorkout, err |-> TRUE, workouts |-> workouts]
    ELSE LET new == [upd[workouts[id]] EXCEPT !.UpdatedAt = now, !.CreatedAt = now]
         IN  [ret |-> new, err |-> FALSE,
              workouts |-> [workouts EXCEPT ![id] = new]]

\* Update without cur.UpdatedAt = time.Now()
Update_noStamp(id, upd, now) ==
    IF id \notin DOMAIN workouts
    THEN [ret |-> ZeroWorkout, err |-> TRUE, workouts |-> workouts]
    ELSE LET new == upd[workouts[id]]
         IN  [ret |-> new, err |-> FALSE,
              workouts |-> [workouts EXCEPT ![id] = new]]

\* WorkoutStore.Update
Update(id, upd, now) ==
    IF id \notin DOMAIN workouts
    THEN [ret |-> ZeroWorkout, err |-> TRUE, workouts |-> workouts]
    ELSE LET new == [upd[workouts[id]] EXCEPT !.UpdatedAt = now]
         IN  [ret |-> new, err |-> FALSE,
              workouts |-> [workouts EXCEPT ![id] = new]]

\* Delete without the presence check
Delete_alwaysTrue(id) ==
    [ret |-> TRUE,
     workouts |-> [i \in DOMAIN workouts \ {id} |-> workouts[i]]]

\* Delete removing the record and reporting it missing
Delete_reportsMissing(id) ==
    [ret |-> FALSE,
     workouts |-> [i \in DOMAIN workouts \ {id} |-> workouts[i]]]

\* WorkoutStore.Delete
Delete(id) ==
    IF id \notin DOMAIN workouts
    THEN [ret |-> FALSE, workouts |-> workouts]
    ELSE [ret |-> TRUE,
          workouts |-> [i \in DOMAIN workouts \ {id} |-> workouts[i]]]

\* sync.RWMutex
CanLock == mu.writer = 0 /\ mu.readers = {}

\* RLock that does not wait for the writer
CanRLock_always == TRUE

CanRLock == mu.writer = 0

Lock(r) == [mu EXCEPT !.writer = r]

Unlock == [mu EXCEPT !.writer = 0]

RLock(r) == [mu EXCEPT !.readers = @ \cup {r}]

\* RUnlock that leaves the reader in
RUnlock_leak(r) == mu

RUnlock(r) == [mu EXCEPT !.readers = @ \ {r}]

\* a clock that can be set back
Now_rewinds == {clock - 1, clock, clock + 1}

\* time.Now(): the clock does not go backwards; two readings may coincide
Now == {clock, clock + 1}

----------------------------------------------------------------------------
(* Requests *)

NoResp == [status |-> 0, body |-> <<>>, error |-> <<>>]

NoReq == [method |-> "", route |-> "", id |-> 0, body |-> [malformed |-> TRUE]]

JSON(obj) == [malformed |-> FALSE, obj |-> obj]

POST(obj) == [method |-> "POST", route |-> "/workouts", id |-> 0, body |-> JSON(obj)]

PUT(id, obj) == [method |-> "PUT", route |-> "/workouts/{id}", id |-> id, body |-> JSON(obj)]

DELETE(id) == [method |-> "DELETE", route |-> "/workouts/{id}", id |-> id, body |-> [malformed |-> TRUE]]

GET(id) == [method |-> "GET", route |-> "/workouts/{id}", id |-> id, body |-> [malformed |-> TRUE]]

\* what WriteJSON / WriteError / WriteHeader leave as the response of request r
Respond(r, status, body, error) ==
    /\ pc' = [pc EXCEPT ![r] = "done"]
    /\ resp' = [resp EXCEPT ![r] = [status |-> status, body |-> body, error |-> error]]

Init ==
    /\ nextID = 1
    /\ workouts = <<>>
    /\ mu = [writer |-> 0, readers |-> {}]
    /\ clock = 1
    /\ arrived = 0
    /\ req = [r \in Reqs |-> NoReq]
    /\ pc = [r \in Reqs |-> "idle"]
    /\ wk = [r \in Reqs |-> <<>>]
    /\ cur = [r \in Reqs |-> <<>>]
    /\ updated = [r \in Reqs |-> <<>>]
    /\ resp = [r \in Reqs |-> NoResp]
    /\ lastWriter = 0
    /\ heap = <<>>
    /\ held = {}
    /\ timer = [isRunning |-> FALSE, startTimestamp |-> <<>>, pausedAccumulated |-> 0,
                displayElapsed |-> 0, pauseAt |-> <<>>, durationMs |-> <<>>]
    /\ dateNow = 1
    /\ ranMs = 0

\* the server accepts the next request, one of menu, and starts its handler
Arrive(menu) ==
    /\ arrived < NReqs
    /\ \E m \in menu :
         LET r == arrived + 1 IN
         /\ arrived' = r
         /\ req' = [req EXCEPT ![r] = m]
         /\ pc' = [pc EXCEPT ![r] = "start"]
    /\ UNCHANGED <<nextID, workouts, mu, clock, wk, cur, updated, resp, lastWriter, heap, held, screenVars>>

Is(r, method, route) ==
    /\ pc[r] = "start"
    /\ req[r].method = method
    /\ req[r].route = route

----------------------------------------------------------------------------
(* POST /workouts *)

\* WorkoutsHandler.ServeHTTP, case POST, up to the call of Create
ServePost(r) ==
    /\ Is(r, "POST", "/workouts")
    /\ IF ReadJSONErr(req[r].body, CreateFields)
       THEN Respond(r, 400, <<>>, <<"Invalid JSON">>) /\ UNCHANGED wk
       ELSE LET d  == DecodeCreate(req[r].body.obj)
                rq == [d EXCEPT !.Title = TrimSpace(@), !.Date = TrimSpace(@),
                                !.Notes = TrimSpace(@)]
                e  == PostValidate(rq)
            IN  IF e # <<>>
                THEN Respond(r, 400, <<>>, e) /\ UNCHANGED wk
                ELSE /\ wk' = [wk EXCEPT ![r] =
                           <<[ZeroWorkout EXCEPT !.Title = rq.Title, !.Date = rq.Date,
                                                 !.Notes = rq.Notes,
                                                 !.Exercises = rq.Exercises]>>]
                     /\ pc' = [pc EXCEPT ![r] = "create_lock"]
                     /\ UNCHANGED resp
    /\ UNCHANGED <<nextID, workouts, mu, clock, arrived, req, cur, updated, lastWriter, heap, held, screenVars>>

\* Create: s.mu.Lock()
CreateLock(r) ==
    /\ pc[r] = "create_lock"
    /\ CanLock
    /\ mu' = Lock(r)
    /\ lastWriter' = r
    /\ pc' = [pc EXCEPT ![r] = "create_cs"]
    /\ UNCHANGED <<nextID, workouts, clock, arrived, req, wk, cur, updated, resp, heap, held, screenVars>>

\* Create: the body, the deferred Unlock, and the 201 response
CreateCS(r) ==
    /\ pc[r] = "create_cs"
    /\ \E now \in Now :
         LET c == Create(wk[r][1], now) IN
         /\ clock' = now
         /\ workouts' = c.workouts
         /\ nextID' = c.nextID
         /\ Respond(r, 201, <<c.ret>>, <<>>)
    /\ mu' = Unlock
    /\ UNCHANGED <<arrived, req, wk, cur, updated, lastWriter, heap, held, screenVars>>

----------------------------------------------------------------------------
(* GET /workouts/{id} *)

\* Get: s.mu.RLock()
GetRLock(r) ==
    /\ Is(r, "GET", "/workouts/{id}")
    /\ CanRLock
    /\ mu' = RLock(r)
    /\ pc' = [pc EXCEPT ![r] = "get_cs"]
    /\ UNCHANGED <<nextID, workouts, clock, arrived, req, wk, cur, updated, resp, lastWriter,
                 heap, held, screenVars>>

\* Get: the body, the deferred RUnlock, and the response
GetCS(r) ==
    /\ pc[r] = "get_cs"
    /\ LET g == Get(req[r].id) IN
       IF ~g.ok
       THEN Respond(r, 404, <<>>, <<"Workout not found">>)
       ELSE Respond(r, 200, <<g.w>>, <<>>)
    /\ mu' = RUnlock(r)
    /\ UNCHANGED <<nextID, workouts, clock, arrived, req, wk, cur, updated, lastWriter, heap, held, screenVars>>

----------------------------------------------------------------------------
(* PUT /workouts/{id} *)

\* WorkoutByIDHandler.ServeHTTP, case PUT: ReadJSON
ServePut(r) ==
    /\ Is(r, "PUT", "/workouts/{id}")
    /\ IF ReadJSONErr(req[r].body, UpdateFields)
       THEN Respond(r, 400, <<>>, <<"Invalid JSON">>)
       ELSE pc' = [pc EXCEPT ![r] = "fetch_lock"] /\ UNCHANGED resp
    /\ UNCHANGED <<nextID, workouts, mu, clock, arrived, req, wk, cur, updated, lastWriter,
                 heap, held, screenVars>>

\* PUT: Get: s.mu.RLock()
FetchRLock(r) ==
    /\ pc[r] = "fetch_lock"
    /\ CanRLock
    /\ mu' = RLock(r)
    /\ pc' = [pc EXCEPT ![r] = "fetch_cs"]
    /\ UNCHANGED <<nextID, workouts, clock, arrived, req, wk, cur, updated, resp, lastWriter,
                 heap, held, screenVars>>

\* PUT: the body of Get with its RUnlock, then the merge into a copy and the
\* validation of the copy, up to the call of Update
Fetch(r) ==
    /\ pc[r] = "fetch_cs"
    /\ mu' = RUnlock(r)
    /\ LET g == Get(req[r].id) IN
       IF ~g.ok
       THEN Respond(r, 404, <<>>, <<"Workout not found">>) /\ UNCHANGED <<cur, updated>>
       ELSE LET u == PutTrim(PutMerge(g.w, DecodeUpdate(req[r].body.obj)))
                e == PutValidate(u)
            IN  /\ cur' = [cur EXCEPT ![r] = <<g.w>>]
                /\ IF e # <<>>
                   THEN Respond(r, 400, <<>>, e) /\ UNCHANGED updated
                   ELSE /\ updated' = [updated EXCEPT ![r] = <<u>>]
                        /\ pc' = [pc EXCEPT ![r] = "update_lock"]
                        /\ UNCHANGED resp
    /\ UNCHANGED <<nextID, workouts, clock, arrived, req, wk, lastWriter, heap, held, screenVars>>

\* Update: s.mu.Lock()
UpdateLock(r) ==
    /\ pc[r] = "update_lock"
    /\ CanLock
    /\ mu' = Lock(r)
    /\ lastWriter' = r
    /\ pc' = [pc EXCEPT ![r] = "update_cs"]
    /\ UNCHANGED <<nextID, workouts, clock, arrived, req, wk, cur, updated, resp, heap, held, screenVars>>

\* the closure the PUT handler hands to Update, as a function of the record
\* Update may apply it to: it returns the precomputed copy
PutClosure(r) ==
    [current \in {workouts[i] : i \in DOMAIN workouts} \cup {ZeroWorkout} |-> updated[r][1]]

\* Update: the body, the deferred Unlock, and the response
UpdateCS(r) ==
    /\ pc[r] = "update_cs"
    /\ \E now \in Now :
         LET u == Update(req[r].id, PutClosure(r), now) IN
         /\ workouts' = u.workouts
         /\ IF u.err
            THEN /\ now = clock
                 /\ UNCHANGED clock
                 /\ Respond(r, 404, <<>>, <<"Workout not found">>)
            ELSE /\ clock' = now
                 /\ Respond(r, 200, <<u.ret>>, <<>>)
    /\ mu' = Unlock
    /\ UNCHANGED <<nextID, arrived, req, wk, cur, updated, lastWriter, heap, held, screenVars>>

----------------------------------------------------------------------------
(* DELETE /workouts/{id} *)

\* Delete: s.mu.Lock()
DeleteLock(r) ==
    /\ Is(r, "DELETE", "/workouts/{id}")
    /\ CanLock
    /\ mu' = Lock(r)
    /\ lastWriter' = r
    /\ pc' = [pc EXCEPT ![r] = "delete_cs"]
    /\ UNCHANGED <<nextID, workouts, clock, arrived, req, wk, cur, updated, resp, heap, held, screenVars>>

\* Delete: the body, the deferred Unlock, and the response
DeleteCS(r) ==
    /\ pc[r] = "delete_cs"
    /\ LET d == Delete(req[r].id) IN
       /\ workouts' = d.workouts
       /\ IF d.ret
          THEN Respond(r, 204, <<>>, <<>>)
          ELSE Respond(r, 404, <<>>, <<"Workout not found">>)
    /\ mu' = Unlock
    /\ UNCHANGED <<nextID, clock, arrived, req, wk, cur, updated, lastWriter, heap, held, screenVars>>

----------------------------------------------------------------------------
(* Inputs *)

TitleA == <<" ", "A">>

TitleB == <<"B", " ">>

Blank == <<" ">>

Date1 == <<"2", "0", "2", "5", "-", "0", "1", "-", "0", "1">>

Date2 == <<" ", "2", "0", "2", "6", "-", "0", "1", "-", "1", "6">>

DateBad == <<"2", "0", "2", "5", "-", "1", "3", "-", "4", "0">>

NoteN == <<"n", " ">>

Squat == <<"S">>

ExOK == <<[Name |-> Squat, Sets |-> <<[Reps |-> 8, Weight |-> <<60>>]>>]>>

ExOK2 == <<[Name |-> <<"P">>, Sets |-> <<[Reps |-> 5, Weight |-> <<>>]>>]>>

ExBadReps == <<[Name |-> Squat, Sets |-> <<[Reps |-> 0, Weight |-> <<>>]>>]>>

Menu ==
    { POST([title |-> TitleA, date |-> Date1, notes |-> <<>>, exercises |-> ExOK]),
      POST([title |-> Blank, date |-> Date1]),
      PUT(1, [title |-> TitleB]),
      PUT(1, [notes |-> NoteN]),
      PUT(1, [title |-> TitleB, date |-> DateBad]),
      PUT(1, [date |-> Date2, exercises |-> ExOK2]),
      PUT(1, [notes |-> NoteN, exercises |-> ExBadReps]),
      DELETE(1),
      GET(1) }

Step(r) ==
    \/ ServePost(r) \/ CreateLock(r) \/ CreateCS(r)
    \/ GetRLock(r) \/ GetCS(r)
    \/ ServePut(r) \/ FetchRLock(r) \/ Fetch(r) \/ UpdateLock(r) \/ UpdateCS(r)
    \/ DeleteLock(r) \/ DeleteCS(r)

Next == Arrive(Menu) \/ \E r \in Reqs : Step(r)

Spec == Init /\ [][Next]_vars

\* N callers create concurrently on a fresh store
TitleC == <<"C">>

CreateMenu ==
    { POST([title |-> TitleA, date |-> Date1, notes |-> NoteN]),
      POST([title |-> TitleB, date |-> Date2, exercises |-> ExOK]),
      POST([title |-> TitleC, date |-> Date1]) }

NextCreates ==
    Arrive(CreateMenu) \/ \E r \in Reqs : ServePost(r) \/ CreateLock(r) \/ CreateCS(r)

SpecCreates == Init /\ [][NextCreates]_vars

\* requests on an id around its deletion, one of them a PUT with a body that
\* does not decode
PutUndecodable(id) ==
    [method |-> "PUT", route |-> "/workouts/{id}", id |-> id, body |-> [malformed |-> TRUE]]

DeletedMenu ==
    { POST([title |-> TitleA, date |-> Date1]),
      DELETE(1),
      GET(1),
      PUT(1, [title |-> TitleB]),
      PutUndecodable(1) }

NextDeleted == Arrive(DeletedMenu) \/ \E r \in Reqs : Step(r)

SpecDeleted == Init /\ [][NextDeleted]_vars

\* one POST, its title, date and exercises drawn from the cases of validation
DateShort == <<"2", "0", "2", "5", "-", "1", "-", "1">>

DateFeb30 == <<"2", "0", "2", "5", "-", "0", "2", "-", "3", "0">>

SetOK == [Reps |-> 8, Weight |-> <<60>>]

ExerciseCases ==
    { [Name |-> Squat, Sets |-> <<SetOK>>],
      [Name |-> <<" ", "S", " ">>, Sets |-> <<[Reps |-> 5, Weight |-> <<>>]>>],
      [Name |-> Blank, Sets |-> <<SetOK>>],
      [Name |-> Blank, Sets |-> <<>>],
      [Name |-> Squat, Sets |-> <<>>],
      [Name |-> Squat, Sets |-> <<[Reps |-> 0, Weight |-> <<>>]>>],
      [Name |-> Squat, Sets |-> <<[Reps |-> 3, Weight |-> <<0 - 1>>]>>],
      [Name |-> Squat, Sets |-> <<[Reps |-> 0, Weight |-> <<0 - 1>>]>>],
      [Name |-> Squat, Sets |-> <<SetOK, [Reps |-> 0 - 2, Weight |-> <<0>>]>>] }

ExerciseLists ==
    {<<>>} \cup {<<a>> : a \in ExerciseCases}
           \cup {<<a, b>> : a \in ExerciseCases, b \in ExerciseCases}

PostInputs ==
    { POST([title |-> t, date |-> d, exercises |-> e]) :
        t \in {<<>>, Blank, TitleA},
        d \in {<<>>, Blank, Date2, DateBad, DateShort, DateFeb30},
        e \in ExerciseLists }

NextPost ==
    \/ Arrive(IF arrived = 0 THEN PostInputs ELSE {})
    \/ \E r \in Reqs : ServePost(r) \/ CreateLock(r) \/ CreateCS(r)

SpecPost == Init /\ [][NextPost]_vars

\* a create, then a create and an update of workout 1 that carry the same title,
\* date and exercises
Candidates ==
    [ title : {<<>>, Blank, TitleA},
      date : {<<>>, Blank, Date2, DateBad},
      exercises : {<<>>} \cup {<<a>> : a \in ExerciseCases} ]

NextBoth ==
    \/ Arrive(IF arrived = 0 THEN {POST([title |-> TitleB, date |-> Date1])}
              ELSE IF arrived = 1 THEN {POST(x) : x \in Candidates}
              ELSE IF arrived = 2 THEN {PUT(1, req[2].body.obj)}
              ELSE {})
    \/ \E r \in Reqs : \/ ServePost(r) \/ CreateLock(r) \/ CreateCS(r)
                       \/ ServePut(r) \/ FetchRLock(r) \/ Fetch(r)
                       \/ UpdateLock(r) \/ UpdateCS(r)

SpecBoth == Init /\ [][NextBoth]_vars

----------------------------------------------------------------------------
(* Routing: the paths the mux hands to the three handlers, the id in the    *)
(* path, the list operation and the answers that need no store call         *)

RECURSIVE trimLeft(_, _)
trimLeft(s, c) == IF s # <<>> /\ Head(s) = c THEN trimLeft(Tail(s), c) ELSE s

RECURSIVE trimRight(_, _)
trimRight(s, c) ==
    IF s # <<>> /\ s[Len(s)] = c THEN trimRight(SubSeq(s, 1, Len(s) - 1), c) ELSE s

\* strings.Trim(s, c) for a one-character cutset
Trim(s, c) == trimRight(trimLeft(s, c), c)

\* strings.Split(s, c) for a one-character separator
RECURSIVE Split(_, _)
Split(s, c) ==
    IF \A i \in 1..Len(s) : s[i] # c THEN <<s>>
    ELSE LET i == CHOOSE i \in 1..Len(s) : s[i] = c /\ \A k \in 1..(i - 1) : s[k] # c
         IN  <<SubSeq(s, 1, i - 1)>> \o Split(SubSeq(s, i + 1, Len(s)), c)

RECURSIVE DecimalValue(_)
DecimalValue(s) ==
    IF s = <<>> THEN 0
    ELSE 10 * DecimalValue(SubSeq(s, 1, Len(s) - 1)) + DigitVal(s[Len(s)])

\* strconv.Atoi, for numerals that fit an int: an optional sign and digits
Atoi(s) ==
    LET signed == s # <<>> /\ s[1] \in {"+", "-"}
        digits == IF signed THEN Tail(s) ELSE s
    IN  IF digits = <<>> \/ \E i \in 1..Len(digits) : ~isDigit(digits[i])
        THEN [n |-> 0, err |-> TRUE]
        ELSE [n |-> IF signed /\ s[1] = "-" THEN 0 - DecimalValue(digits)
                                             ELSE DecimalValue(digits),
              err |-> FALSE]

WorkoutsSegment == <<"w", "o", "r", "k", "o", "u", "t", "s">>

\* parseWorkoutID letting the id 0 through
parseWorkoutID_nonNegative(path) ==
    LET parts == Split(Trim(path, "/"), "/") IN
    IF Len(parts) # 2 \/ parts[1] # WorkoutsSegment THEN [id |-> 0, ok |-> FALSE]
    ELSE LET a == Atoi(parts[2]) IN
         IF a.err \/ a.n < 0 THEN [id |-> 0, ok |-> FALSE] ELSE [id |-> a.n, ok |-> TRUE]

parseWorkoutID(path) ==
    LET parts == Split(Trim(path, "/"), "/") IN
    IF Len(parts) # 2 \/ parts[1] # WorkoutsSegment THEN [id |-> 0, ok |-> FALSE]
    ELSE LET a == Atoi(parts[2]) IN
         IF a.err \/ a.n <= 0 THEN [id |-> 0, ok |-> FALSE] ELSE [id |-> a.n, ok |-> TRUE]

HealthPath == <<"/", "h", "e", "a", "l", "t", "h">>

WorkoutsPath == <<"/">> \o WorkoutsSegment

\* a request as the mux dispatches it: "/health" and "/workouts" by exact
\* match, the paths below "/workouts/" to the handler that starts by parsing
\* the id; route "/workouts/" stands for a path whose id did not parse
Route(method, path, body) ==
    LET p == parseWorkoutID(path) IN
    [method |-> method,
     route  |-> IF path = HealthPath THEN "/health"
                ELSE IF path = WorkoutsPath THEN "/workouts"
                ELSE IF p.ok THEN "/workouts/{id}" ELSE "/workouts/",
     id     |-> IF path \in {HealthPath, WorkoutsPath} THEN 0 ELSE p.id,
     body   |-> body,
     path   |-> path]

\* HealthHandler.ServeHTTP
ServeHealth(r) ==
    /\ pc[r] = "start"
    /\ req[r].route = "/health"
    /\ Respond(r, 200, <<[status |-> "ok"]>>, <<>>)
    /\ UNCHANGED <<nextID, workouts, mu, clock, arrived, req, wk, cur, updated, lastWriter,
                 heap, held, screenVars>>

\* the slices List can return: the records of the map in any order
List ==
    LET ids == DOMAIN workouts
        n   == Cardinality(ids)
    IN  { [i \in 1..n |-> workouts[f[i]]] :
            f \in {g \in [1..n -> ids] : \A i, j \in 1..n : g[i] = g[j] => i = j} }

\* GET /workouts: List: s.mu.RLock()
ListRLock(r) ==
    /\ Is(r, "GET", "/workouts")
    /\ CanRLock
    /\ mu' = RLock(r)
    /\ pc' = [pc EXCEPT ![r] = "list_cs"]
    /\ UNCHANGED <<nextID, workouts, clock, arrived, req, wk, cur, updated, resp, lastWriter,
                 heap, held, screenVars>>

\* List: the body, the deferred RUnlock, and the response
ListCS(r) ==
    /\ pc[r] = "list_cs"
    /\ \E out \in List : Respond(r, 200, <<out>>, <<>>)
    /\ mu' = RUnlock(r)
    /\ UNCHANGED <<nextID, workouts, clock, arrived, req, wk, cur, updated, lastWriter, heap, held, screenVars>>

\* WorkoutsHandler.ServeHTTP: default
CollectionNotAllowed(r) ==
    /\ pc[r] = "start"
    /\ req[r].route = "/workouts"
    /\ req[r].method \notin {"GET", "POST"}
    /\ Respond(r, 405, <<>>, <<"Method not allowed">>)
    /\ UNCHANGED <<nextID, workouts, mu, clock, arrived, req, wk, cur, updated, lastWriter,
                 heap, held, screenVars>>

\* WorkoutByIDHandler.ServeHTTP: the id did not parse
BadID(r) ==
    /\ pc[r] = "start"
    /\ req[r].route = "/workouts/"
    /\ Respond(r, 404, <<>>, <<"Not found">>)
    /\ UNCHANGED <<nextID, workouts, mu, clock, arrived, req, wk, cur, updated, lastWriter,
                 heap, held, screenVars>>

\* WorkoutByIDHandler.ServeHTTP: default
ByIDNotAllowed(r) ==
    /\ pc[r] = "start"
    /\ req[r].route = "/workouts/{id}"
    /\ req[r].method \notin {"GET", "PUT", "DELETE"}
    /\ Respond(r, 405, <<>>, <<"Method not allowed">>)
    /\ UNCHANGED <<nextID, workouts, mu, clock, arrived, req, wk, cur, updated, lastWriter,
                 heap, held, screenVars>>

\* a create, then one request of any method on any path, with a body that
\* decodes or one that does not
Methods == {"GET", "POST", "PUT", "DELETE", "PATCH"}

IdSegments ==
    { <<"1">>, <<"2">>, <<"0", "1">>, <<"+", "1">>, <<"1", "/">>,
      <<>>, <<"0">>, <<"-", "1">>, <<"x">>, <<"1", "x">>,
      <<"1", "/", "s", "e", "t", "s">> }

Paths == {HealthPath, WorkoutsPath} \cup {WorkoutsPath \o <<"/">> \o s : s \in IdSegments}

RouteMenu ==
    { Route(m, p, b) :
        m \in Methods, p \in Paths,
        b \in {JSON([title |-> TitleB, date |-> Date2]), [malformed |-> TRUE]} }

NextRoutes ==
    \/ Arrive(IF arrived = 0 THEN {POST([title |-> TitleA, date |-> Date1])}
              ELSE IF arrived = 1 THEN RouteMenu
              ELSE {})
    \/ \E r \in Reqs : \/ Step(r)
                       \/ ServeHealth(r) \/ ListRLock(r) \/ ListCS(r)
                       \/ CollectionNotAllowed(r) \/ BadID(r) \/ ByIDNotAllowed(r)

SpecRoutes == Init /\ [][NextRoutes]_vars

----------------------------------------------------------------------------
(* The store called from Go code.  A Workout is passed and returned as a    *)
(* struct copy: the copy has its own ID, Title, Date, Notes and times, and  *)
(* its Exercises field is a slice header on the same backing array; so are  *)
(* the Sets of an Exercise, and the Weight of a Set is a pointer.  Here the *)
(* Exercises of a Workout is a slice header and the arrays are in heap.     *)

MaxRecords == 2

Slice(ptr, len) == [ptr |-> ptr, len |-> len]

\* the Workout w with its exercises, sets and weights read through the heap
Deref(w) ==
    [w EXCEPT !.Exercises =
        [i \in 1..w.Exercises.len |->
            LET ex == heap[w.Exercises.ptr][i] IN
            [Name |-> ex.Name,
             Sets |-> [j \in 1..ex.Sets.len |->
                         LET set == heap[ex.Sets.ptr][j] IN
                         [Reps   |-> set.Reps,
                          Weight |-> IF set.Weight = <<>> THEN <<>>
                                     ELSE <<heap[set.Weight[1]][1]>>]]]]]

\* the caller builds a Workout of one exercise with one weighted set: the
\* weight, the []Set and the []Exercise are three new allocations
NewWorkout(title) ==
    LET a == Len(heap) IN
    [w    |-> [ZeroWorkout EXCEPT !.Title = title, !.Date = Date1,
                                  !.Exercises = Slice(a + 3, 1)],
     heap |-> heap \o << <<60>>,
                         <<[Reps |-> 8, Weight |-> <<a + 1>>]>>,
                         <<[Name |-> Squat, Sets |-> Slice(a + 2, 1)]>> >>]

\* w := Workout{...}; ret := s.Create(w), the caller keeping w and ret
CallCreate ==
    /\ nextID <= MaxRecords
    /\ CanLock
    /\ \E now \in Now :
         LET n == NewWorkout(IF nextID = 1 THEN TitleA ELSE TitleC)
             c == Create(n.w, now)
         IN  /\ clock' = now
             /\ workouts' = c.workouts
             /\ nextID' = c.nextID
             /\ heap' = n.heap
             /\ held' = held \cup {n.w, c.ret}
    /\ UNCHANGED <<mu, arrived, req, pc, wk, cur, updated, resp, lastWriter, screenVars>>

\* w, ok := s.Get(id)
CallGet ==
    /\ CanRLock
    /\ \E id \in 1..MaxRecords :
         LET g == Get(id) IN
         /\ g.ok
         /\ held' = held \cup {g.w}
    /\ UNCHANGED <<nextID, workouts, mu, clock, arrived, req, pc, wk, cur, updated, resp,
                   lastWriter, heap, screenVars>>

\* out := s.List(), the caller keeping the elements
CallList ==
    /\ CanRLock
    /\ \E out \in List : held' = held \cup {out[i] : i \in 1..Len(out)}
    /\ UNCHANGED <<nextID, workouts, mu, clock, arrived, req, pc, wk, cur, updated, resp,
                   lastWriter, heap, screenVars>>

\* func(cur Workout) Workout { cur.Title = "B "; return cur }
Retitle == [w \in {workouts[i] : i \in DOMAIN workouts} |-> [w EXCEPT !.Title = TitleB]]

\* ret, err := s.Update(id, retitle)
CallUpdate ==
    /\ CanLock
    /\ \E id \in DOMAIN workouts, now \in Now :
         LET u == Update(id, Retitle, now) IN
         /\ workouts[id].Title # TitleB
         /\ clock' = now
         /\ workouts' = u.workouts
         /\ held' = held \cup {u.ret}
    /\ UNCHANGED <<nextID, mu, arrived, req, pc, wk, cur, updated, resp, lastWriter, heap, screenVars>>

NameX == <<"X">>

\* w.Title = "C" on a value the caller holds
SetTitle ==
    /\ \E w \in held :
         /\ w.Title # TitleC
         /\ held' = (held \ {w}) \cup {[w EXCEPT !.Title = TitleC]}
    /\ UNCHANGED <<nextID, workouts, mu, clock, arrived, req, pc, wk, cur, updated, resp,
                   lastWriter, heap, screenVars>>

\* w.Exercises[0].Name = "X" on a value the caller holds
SetName ==
    /\ \E w \in held :
         /\ heap[w.Exercises.ptr][1].Name # NameX
         /\ heap' = [heap EXCEPT ![w.Exercises.ptr][1].Name = NameX]
    /\ UNCHANGED <<nextID, workouts, mu, clock, arrived, req, pc, wk, cur, updated, resp,
                   lastWriter, held, screenVars>>

\* w.Exercises[0].Sets[0].Reps = 0 on a value the caller holds
SetReps ==
    /\ \E w \in held :
         LET sets == heap[w.Exercises.ptr][1].Sets IN
         /\ heap[sets.ptr][1].Reps # 0
         /\ heap' = [heap EXCEPT ![sets.ptr][1].Reps = 0]
    /\ UNCHANGED <<nextID, workouts, mu, clock, arrived, req, pc, wk, cur, updated, resp,
                   lastWriter, held, screenVars>>

\* *w.Exercises[0].Sets[0].Weight = -1 on a value the caller holds
SetWeight ==
    /\ \E w \in held :
         LET sets == heap[w.Exercises.ptr][1].Sets
             p    == heap[sets.ptr][1].Weight[1]
         IN  /\ heap[p] # <<0 - 1>>
             /\ heap' = [heap EXCEPT ![p] = <<0 - 1>>]
    /\ UNCHANGED <<nextID, workouts, mu, clock, arrived, req, pc, wk, cur, updated, resp,
                   lastWriter, held, screenVars>>

NextAlias ==
    \/ CallCreate \/ CallGet \/ CallList \/ CallUpdate
    \/ SetTitle \/ SetName \/ SetReps \/ SetWeight

SpecAlias == Init /\ [][NextAlias]_vars

\* the five store operations called concurrently on one workout
LIST == Route("GET", WorkoutsPath, [malformed |-> TRUE])

LocksMenu ==
    { POST([title |-> TitleA, date |-> Date1]),
      PUT(1, [title |-> TitleB]),
      DELETE(1),
      GET(1),
      LIST }

NextLocks ==
    \/ Arrive(LocksMenu)
    \/ \E r \in Reqs : Step(r) \/ ListRLock(r) \/ ListCS(r)

SpecLocks == Init /\ [][NextLocks]_vars

\* updates of workout 1 with a body that does not decode, a body with a field
\* the request does not have, a patch that fails validation and a good patch,
\* before the workout is created, while it is stored and after it is deleted
PutOrderMenu ==
    { POST([title |-> TitleA, date |-> Date1]),
      DELETE(1),
      PutUndecodable(1),
      PUT(1, [title |-> TitleB, reps |-> 8]),
      PUT(1, [title |-> Blank, date |-> DateBad]),
      PUT(1, [title |-> TitleB]) }

NextPutOrder ==
    \/ Arrive(PutOrderMenu)
    \/ \E r \in Reqs : \/ ServePost(r) \/ CreateLock(r) \/ CreateCS(r)
                       \/ ServePut(r) \/ FetchRLock(r) \/ Fetch(r)
                       \/ UpdateLock(r) \/ UpdateCS(r)
                       \/ DeleteLock(r) \/ DeleteCS(r)

SpecPutOrder == Init /\ [][NextPutOrder]_vars

\* a create and then the other operations, under fair scheduling: the Go
\* scheduler runs every goroutine that can run, and a goroutine blocked in
\* Lock or RLock is woken when the mutex can be taken
NextFair ==
    \/ Arrive(IF arrived = 0 THEN {POST([title |-> TitleA, date |-> Date1])}
              ELSE {PUT(1, [title |-> TitleB]), DELETE(1), GET(1), LIST})
    \/ \E r \in Reqs : Step(r) \/ ListRLock(r) \/ ListCS(r)

FairLocks ==
    /\ Init /\ [][NextFair]_vars
    /\ \A r \in Reqs : WF_vars(Step(r) \/ ListRLock(r) \/ ListCS(r))

\* creates and a delete among requests that are turned down or only read
FrameMenu ==
    { POST([title |-> TitleA, date |-> Date1]),
      POST([title |-> Blank, date |-> Date1]),
      PUT(1, [date |-> DateBad]),
      DELETE(1),
      GET(1),
      LIST,
      Route("PATCH", WorkoutsPath \o <<"/", "1">>, [malformed |-> TRUE]),
      Route("GET", WorkoutsPath \o <<"/", "x">>, [malformed |-> TRUE]) }

NextFrame ==
    \/ Arrive(FrameMenu)
    \/ \E r \in Reqs : \/ ServePost(r) \/ CreateLock(r) \/ CreateCS(r)
                       \/ GetRLock(r) \/ GetCS(r)
                       \/ ServePut(r) \/ FetchRLock(r) \/ Fetch(r)
                       \/ DeleteLock(r) \/ DeleteCS(r)
                       \/ ListRLock(r) \/ ListCS(r)
                       \/ BadID(r) \/ ByIDNotAllowed(r)

SpecFrame == Init /\ [][NextFrame]_vars

----------------------------------------------------------------------------
(* The active-workout screen of the mobile app: its timer.  A press runs    *)
(* its handler on the state of the last render; Finish ends the screen.     *)

MaxTime == 4

\* a millisecond passes
TimePasses ==
    /\ dateNow < MaxTime
    /\ dateNow' = dateNow + 1
    /\ ranMs' = IF timer.isRunning /\ timer.durationMs = <<>> THEN ranMs + 1 ELSE ranMs
    /\ UNCHANGED <<nextID, workouts, mu, clock, arrived, req, pc, wk, cur, updated, resp,
                   lastWriter, heap, held, timer>>

\* Start, offered when the timer is not running: handleStart
handleStart ==
    /\ timer.durationMs = <<>>
    /\ ~timer.isRunning
    /\ timer' = [timer EXCEPT !.startTimestamp = <<dateNow>>, !.isRunning = TRUE]
    /\ UNCHANGED <<nextID, workouts, mu, clock, arrived, req, pc, wk, cur, updated, resp,
                   lastWriter, heap, held, dateNow, ranMs>>

\* Pause, offered when the timer is running: handlePause
handlePause ==
    /\ timer.durationMs = <<>>
    /\ timer.isRunning
    /\ timer' = [timer EXCEPT !.pauseAt = <<dateNow>>, !.isRunning = FALSE]
    /\ UNCHANGED <<nextID, workouts, mu, clock, arrived, req, pc, wk, cur, updated, resp,
                   lastWriter, heap, held, dateNow, ranMs>>

\* Resume, offered when the timer is not running and has been started:
\* handleResume
handleResume ==
    /\ timer.durationMs = <<>>
    /\ ~timer.isRunning /\ timer.startTimestamp # <<>>
    /\ timer' = IF timer.pauseAt # <<>>
                THEN [timer EXCEPT !.pausedAccumulated = @ + (dateNow - timer.pauseAt[1]),
                                   !.pauseAt = <<>>, !.isRunning = TRUE]
                ELSE [timer EXCEPT !.isRunning = TRUE]
    /\ UNCHANGED <<nextID, workouts, mu, clock, arrived, req, pc, wk, cur, updated, resp,
                   lastWriter, heap, held, dateNow, ranMs>>

\* the interval of the tick effect fires while the timer runs
Tick ==
    /\ timer.durationMs = <<>>
    /\ timer.isRunning /\ timer.startTimestamp # <<>>
    /\ timer' = [timer EXCEPT !.displayElapsed =
                     dateNow - timer.startTimestamp[1] - timer.pausedAccumulated]
    /\ UNCHANGED <<nextID, workouts, mu, clock, arrived, req, pc, wk, cur, updated, resp,
                   lastWriter, heap, held, dateNow, ranMs>>

\* Finish, always offered: handleFinish computes durationMs
handleFinish ==
    /\ timer.durationMs = <<>>
    /\ timer' = [timer EXCEPT !.durationMs =
                     IF timer.startTimestamp # <<>>
                     THEN <<dateNow - timer.startTimestamp[1] - timer.pausedAccumulated>>
                     ELSE <<0>>]
    /\ UNCHANGED <<nextID, workouts, mu, clock, arrived, req, pc, wk, cur, updated, resp,
                   lastWriter, heap, held, dateNow, ranMs>>

NextTimer ==
    TimePasses \/ handleStart \/ handlePause \/ handleResume \/ Tick \/ handleFinish

SpecTimer == Init /\ [][NextTimer]_vars

----------------------------------------------------------------------------
(* Vocabulary of the properties *)

Finished(r, method) == pc[r] = "done" /\ req[r].method = method

Answered(r, method, status) == Finished(r, method) /\ resp[r].status = status

Returned(r) == resp[r].body[1]

\* the value a request body gives a field, the empty string or list when absent
Sent(r, f) == IF f \in DOMAIN req[r].body.obj THEN req[r].body.obj[f] ELSE <<>>

Has(r, f) == f \in DOMAIN req[r].body.obj

Completes(r, at) == pc[r] = at /\ pc'[r] = "done"

MonthDays == <<31, 28, 31, 30, 31, 30, 31, 31, 30, 31, 30, 31>>

\* s is a calendar date written YYYY-MM-DD
IsYMD(s) ==
    /\ Len(s) = 10
    /\ \A i \in {1, 2, 3, 4, 6, 7, 9, 10} : isDigit(s[i])
    /\ s[5] = "-" /\ s[8] = "-"
    /\ LET y == 1000 * DigitVal(s[1]) + 100 * DigitVal(s[2]) + 10 * DigitVal(s[3]) + DigitVal(s[4])
           m == 10 * DigitVal(s[6]) + DigitVal(s[7])
           d == 10 * DigitVal(s[9]) + DigitVal(s[10])
           leap == (y % 4 = 0 /\ y % 100 # 0) \/ y % 400 = 0
       IN  /\ m \in 1..12
           /\ d >= 1
           /\ d <= (IF m = 2 /\ leap THEN 29 ELSE MonthDays[m])

ValidSet(st) == st.Reps > 0 /\ (st.Weight # <<>> => st.Weight[1] >= 0)

ValidExercise(ex) ==
    /\ TrimSpace(ex.Name) # <<>>
    /\ Len(ex.Sets) >= 1
    /\ \A j \in 1..Len(ex.Sets) : ValidSet(ex.Sets[j])

ValidRecord(w) ==
    /\ w.Title # <<>>
    /\ w.Date # <<>>
    /\ IsYMD(w.Date)
    /\ \A i \in 1..Len(w.Exercises) : ValidExercise(w.Exercises[i])

\* the record a patch asks for, given the record it is applied to
Patched(prior, r) ==
    [ID        |-> prior.ID,
     Title     |-> IF Has(r, "title") THEN TrimSpace(Sent(r, "title")) ELSE prior.Title,
     Date      |-> IF Has(r, "date") THEN TrimSpace(Sent(r, "date")) ELSE prior.Date,
     Notes     |-> IF Has(r, "notes") THEN TrimSpace(Sent(r, "notes")) ELSE prior.Notes,
     Exercises |-> IF Has(r, "exercises") THEN Sent(r, "exercises") ELSE prior.Exercises,
     CreatedAt |-> prior.CreatedAt,
     UpdatedAt |-> prior.UpdatedAt]

SameContent(a, b) ==
    /\ a.ID = b.ID /\ a.Title = b.Title /\ a.Date = b.Date /\ a.Notes = b.Notes
    /\ a.Exercises = b.Exercises /\ a.CreatedAt = b.CreatedAt

----------------------------------------------------------------------------
(* Properties *)

\* C1: the ids returned by successive Create calls are strictly increasing
\* from 1: a Create returns 1 when no Create returned before it, and otherwise
\* an id greater than every id returned before, also when the records that
\* held those ids have been deleted.
C1_IdsIncreaseNeverReused ==
    [][\A r \in Reqs : Completes(r, "create_cs") =>
         LET issued == {Returned(q).ID : q \in {q \in Reqs : Answered(q, "POST", 201)}}
             id     == resp'[r].body[1].ID
         IN  /\ issued = {} => id = 1
             /\ \A i \in issued : i < id]_vars

\* a Create that ran after the only earlier record was deleted got id 2
C1_Witness ==
    \E r, d \in Reqs :
        /\ Answered(d, "DELETE", 204)
        /\ Answered(r, "POST", 201) /\ lastWriter = r
        /\ Returned(r).ID = 2 /\ DOMAIN workouts = {2}

\* C2: when N callers create concurrently on a fresh store, the ids returned
\* so far are pairwise distinct, their set is 1..k for the k callers that
\* returned, and each id maps to the record of the caller that received it.
C2_ConcurrentCreates ==
    LET done == {r \in Reqs : Answered(r, "POST", 201)} IN
    /\ \A r, q \in done : r # q => Returned(r).ID # Returned(q).ID
    /\ {Returned(r).ID : r \in done} = 1..Cardinality(done)
    /\ \A r \in done :
         /\ Returned(r).ID \in DOMAIN workouts
         /\ workouts[Returned(r).ID] = Returned(r)
         /\ Returned(r).Title = TrimSpace(Sent(r, "title"))
         /\ Returned(r).Date = TrimSpace(Sent(r, "date"))
         /\ Returned(r).Notes = TrimSpace(Sent(r, "notes"))
         /\ Returned(r).Exercises = Sent(r, "exercises")

\* all N callers returned, the first to arrive got the last id
C2_Witness ==
    /\ \A r \in Reqs : Answered(r, "POST", 201)
    /\ Returned(1).ID = NReqs
    /\ \E r \in Reqs : Sent(r, "title") # Sent(1, "title")

\* C3: while no write followed a create, Get of the id the create returned
\* finds a record with that id, id > 0, createdAt = updatedAt, and title, date,
\* notes and exercises equal to the request's values after trimming.
C3_GetAfterCreate ==
    \A r \in Reqs :
        (Answered(r, "POST", 201) /\ lastWriter = r) =>
            LET g == Get(Returned(r).ID) IN
            /\ g.ok
            /\ g.w.ID > 0
            /\ g.w.ID = Returned(r).ID
            /\ g.w.CreatedAt = g.w.UpdatedAt
            /\ g.w.Title = TrimSpace(Sent(r, "title"))
            /\ g.w.Date = TrimSpace(Sent(r, "date"))
            /\ g.w.Notes = TrimSpace(Sent(r, "notes"))
            /\ g.w.Exercises = Sent(r, "exercises")

\* a create whose title needed trimming is the last write, after another create
C3_Witness ==
    \E r \in Reqs :
        /\ Answered(r, "POST", 201) /\ lastWriter = r
        /\ Sent(r, "title") # TrimSpace(Sent(r, "title"))
        /\ Returned(r).ID = 2
        /\ Returned(r).CreatedAt > 1

\* C4: every record the store holds is valid: non-empty title, non-empty
\* date that is a calendar date YYYY-MM-DD, every exercise with a non-empty
\* trimmed name and at least one set, every set with reps > 0 and a weight, if
\* present, >= 0.
C4_StoredRecordsValid ==
    \A id \in DOMAIN workouts : ValidRecord(workouts[id])

\* the store holds exercises that an update put there, and an update with an
\* invalid exercise list was turned down
C4_Witness ==
    /\ \E id \in DOMAIN workouts : workouts[id].Exercises = ExOK2
    /\ \E r \in Reqs : Answered(r, "PUT", 400) /\ Has(r, "exercises")

\* C5: an update whose merged candidate fails validation answers 400, and no
\* step of an update request up to and including a 400 answer changes the
\* record map or the id counter.
C5_RejectedUpdateChangesNothing ==
    [][\A r \in Reqs :
         /\ (pc[r] = "fetch_cs" /\ pc'[r] # pc[r] /\ req[r].id \in DOMAIN workouts
               /\ ~ValidRecord(Patched(workouts[req[r].id], r)))
            => (pc'[r] = "done" /\ resp'[r].status = 400)
         /\ (req'[r].method = "PUT" /\ pc'[r] # pc[r]
               /\ (pc'[r] = "done" => resp'[r].status = 400))
            => (workouts' = workouts /\ nextID' = nextID)]_vars

\* an update carrying a good title and a bad date was turned down and the
\* record it fetched is still the stored one
C5_Witness ==
    \E r \in Reqs :
        /\ Answered(r, "PUT", 400)
        /\ Has(r, "title") /\ Has(r, "date")
        /\ cur[r] # <<>>
        /\ req[r].id \in DOMAIN workouts
        /\ workouts[req[r].id] = cur[r][1]
        /\ workouts[req[r].id].Title # TrimSpace(Sent(r, "title"))

\* C6: a successful update whose record was not written between its fetch
\* and its commit leaves the merge of the prior record and the patch: patched
\* title, date, notes trimmed, patched exercises replacing the whole list,
\* every other field as before.
C6_UpdateStoresMerge ==
    [][\A r \in Reqs :
         (Completes(r, "update_cs") /\ resp'[r].status = 200
            /\ workouts[req[r].id] = cur[r][1])
         => SameContent(workouts'[req[r].id], Patched(workouts[req[r].id], r))]_vars

\* an update of notes only went through on a record with a title, a date and
\* exercises, and another replaced a non-empty exercise list
C6_Witness ==
    /\ \E r \in Reqs :
         /\ Answered(r, "PUT", 200)
         /\ DOMAIN req[r].body.obj = {"notes"}
         /\ Returned(r).Notes # cur[r][1].Notes
         /\ Returned(r).Title = cur[r][1].Title
    /\ \E r \in Reqs :
         /\ Answered(r, "PUT", 200)
         /\ Has(r, "exercises")
         /\ cur[r][1].Exercises # <<>>
         /\ Returned(r).Exercises = Sent(r, "exercises")

\* C7: when an update commits on a record that holds the committed result of
\* another update of the same id, every field absent from its patch keeps the
\* value that other update wrote.
C7_SecondUpdateKeepsFirst ==
    [][\A r, q \in Reqs :
         (/\ q # r
          /\ Answered(q, "PUT", 200) /\ req[q].id = req[r].id
          /\ Completes(r, "update_cs") /\ resp'[r].status = 200
          /\ workouts[req[r].id] = Returned(q))
         => LET after == workouts'[req[r].id] IN
            /\ ~Has(r, "title") => after.Title = Returned(q).Title
            /\ ~Has(r, "date") => after.Date = Returned(q).Date
            /\ ~Has(r, "notes") => after.Notes = Returned(q).Notes
            /\ ~Has(r, "exercises") => after.Exercises = Returned(q).Exercises]_vars

\* C8: an update that passed validation and whose record was not deleted
\* answers 200, so two concurrent ones both do, and the stored record equals
\* the record returned to the update that acquired the write lock last.
C8_BothSucceedLastWins ==
    \A r \in Reqs :
        /\ (Finished(r, "PUT") /\ updated[r] # <<>> /\ req[r].id \in DOMAIN workouts)
           => resp[r].status = 200
        /\ (Answered(r, "PUT", 200) /\ lastWriter = r)
           => (req[r].id \in DOMAIN workouts /\ workouts[req[r].id] = Returned(r))

\* two updates of one id fetched the same record, both answered 200 with
\* different records, and the stored record is the one returned to the last
C8_Witness ==
    \E r, q \in Reqs :
        /\ r # q /\ req[r].id = req[q].id
        /\ Answered(r, "PUT", 200) /\ Answered(q, "PUT", 200)
        /\ cur[r] = cur[q]
        /\ Returned(r) # Returned(q)
        /\ lastWriter = r
        /\ workouts[req[r].id] = Returned(r)

\* C9: an update that commits after its record was deleted answers 404 and
\* leaves the id absent, and the id of an update that fetched its record and
\* then answered 404 is absent from the store ever after.
C9_UpdateAfterDeleteNotFound ==
    /\ [][\A r \in Reqs :
            (Completes(r, "update_cs") /\ req[r].id \notin DOMAIN workouts)
            => (resp'[r].status = 404 /\ req[r].id \notin DOMAIN workouts')]_vars
    /\ [](\A r \in Reqs :
            (Answered(r, "PUT", 404) /\ cur[r] # <<>>) => req[r].id \notin DOMAIN workouts)

\* an update fetched its record, the record was deleted, the update answered 404
C9_Witness ==
    \E r, d \in Reqs :
        /\ Answered(r, "PUT", 404) /\ updated[r] # <<>>
        /\ Answered(d, "DELETE", 204) /\ req[d].id = req[r].id
        /\ req[r].id \notin DOMAIN workouts

\* C10: Delete of a present id returns true (204) and removes it, Delete of
\* an absent id returns false (404) and changes nothing, and Delete returns
\* true at most once for any id.
C10_DeleteOnce ==
    /\ [][\A r \in Reqs : Completes(r, "delete_cs") =>
            IF req[r].id \in DOMAIN workouts
            THEN resp'[r].status = 204 /\ req[r].id \notin DOMAIN workouts'
            ELSE resp'[r].status = 404 /\ workouts' = workouts /\ nextID' = nextID]_vars
    /\ [](\A r, q \in Reqs :
            (Answered(r, "DELETE", 204) /\ Answered(q, "DELETE", 204)
               /\ req[r].id = req[q].id) => r = q)

\* two deletes of the id of a created record: one answered 204, the other 404
C10_Witness ==
    \E r, q \in Reqs :
        /\ req[r].id = req[q].id
        /\ Answered(r, "DELETE", 204) /\ Answered(q, "DELETE", 404)
        /\ \E c \in Reqs : Answered(c, "POST", 201) /\ Returned(c).ID = req[r].id


\* the id of request r has been deleted: a DELETE on it answered 204
Deleted(r) == \E d \in Reqs : Answered(d, "DELETE", 204) /\ req[d].id = req[r].id

ByID(r) == req[r].route = "/workouts/{id}" /\ req[r].method \in {"GET", "PUT", "DELETE"}

Answers(r) == pc[r] # "done" /\ pc'[r] = "done"

\* C11 as stated: once a DELETE on an id has answered 204, every GET, PUT and
\* DELETE on that id answered afterwards answers 404.
C11_AfterDeleteAlways404 ==
    [][\A r \in Reqs : (ByID(r) /\ Deleted(r) /\ Answers(r)) => resp'[r].status = 404]_vars

\* C11, amended: once a DELETE on an id has answered 204, every GET and DELETE
\* on that id, and every PUT whose body decodes, answered afterwards answers
\* 404; a PUT whose body does not decode answers 400; and the id is never in
\* the store again.
C11_AfterDelete404UnlessUndecodable ==
    /\ [][\A r \in Reqs : (ByID(r) /\ Deleted(r) /\ Answers(r)) =>
            resp'[r].status =
               (IF req[r].method = "PUT" /\ ReadJSONErr(req[r].body, UpdateFields)
                THEN 400 ELSE 404)]_vars
    /\ [](\A r \in Reqs : Deleted(r) => req[r].id \notin DOMAIN workouts)

\* after a DELETE of an id answered 204, a second DELETE of the id took the
\* lock and answered 404
C11_Witness ==
    \E d, r \in Reqs :
        /\ Answered(d, "DELETE", 204)
        /\ Answered(r, "DELETE", 404) /\ req[r].id = req[d].id /\ lastWriter = r

\* C12: as long as a record is in the store, its id and createdAt are the
\* ones Create returned for it, whatever updates were committed on it.
C12_IdCreatedAtPreserved ==
    \A c \in Reqs :
        (Answered(c, "POST", 201) /\ Returned(c).ID \in DOMAIN workouts) =>
            /\ workouts[Returned(c).ID].ID = Returned(c).ID
            /\ workouts[Returned(c).ID].CreatedAt = Returned(c).CreatedAt

\* a record carries an update committed at a later clock reading than its creation
C12_Witness ==
    \E c, r \in Reqs :
        /\ Answered(c, "POST", 201) /\ Answered(r, "PUT", 200)
        /\ req[r].id = Returned(c).ID
        /\ req[r].id \in DOMAIN workouts
        /\ workouts[req[r].id] = Returned(r)
        /\ Returned(r).UpdatedAt > Returned(c).CreatedAt

\* C13 as stated: after every successful update the record's updatedAt is
\* strictly greater than the updatedAt it had before.
C13_UpdatedAtStrictlyGreater ==
    [][\A r \in Reqs : (Completes(r, "update_cs") /\ resp'[r].status = 200) =>
         workouts'[req[r].id].UpdatedAt > workouts[req[r].id].UpdatedAt]_vars

\* C13, amended: after every successful update the record's updatedAt is the
\* clock reading taken by the update; it is at least the updatedAt it had
\* before and at least createdAt, and strictly greater than the former when
\* the clock advanced since the last reading.
C13_UpdatedAtNotBefore ==
    [][\A r \in Reqs : (Completes(r, "update_cs") /\ resp'[r].status = 200) =>
         LET before == workouts[req[r].id]
             after  == workouts'[req[r].id]
         IN  /\ after.UpdatedAt = clock'
             /\ after.UpdatedAt >= before.UpdatedAt
             /\ after.UpdatedAt >= after.CreatedAt
             /\ clock' > clock => after.UpdatedAt > before.UpdatedAt]_vars

\* one update left updatedAt equal to createdAt, a second one moved it forward
C13_Witness ==
    \E r, q \in Reqs :
        /\ Answered(r, "PUT", 200) /\ Answered(q, "PUT", 200) /\ req[r].id = req[q].id
        /\ Returned(r).UpdatedAt = Returned(r).CreatedAt
        /\ Returned(q).UpdatedAt > Returned(q).CreatedAt


\* the first exercise that fails a check, 0 when none does
FirstBadExercise(exs) ==
    LET bad == {i \in 1..Len(exs) : ~ValidExercise(exs[i])} IN
    IF bad = {} THEN 0 ELSE CHOOSE i \in bad : \A k \in bad : i <= k

\* the message the validation order asks for; indexes are counted from 0
ExerciseError(exs) ==
    LET i == FirstBadExercise(exs) IN
    IF i = 0 THEN <<>>
    ELSE LET ex   == exs[i]
             name == TrimSpace(ex.Name)
             badS == {j \in 1..Len(ex.Sets) : ~ValidSet(ex.Sets[j])}
             j    == CHOOSE j \in badS : \A k \in badS : j <= k
         IN  IF name = <<>> THEN <<"exercise name is required (at index ", i - 1, ")">>
             ELSE IF Len(ex.Sets) = 0
             THEN <<"exercise sets must have at least 1 set for: ", name>>
             ELSE IF ex.Sets[j].Reps <= 0
             THEN <<"reps must be > 0 for exercise: ", name, ", set index ", j - 1>>
             ELSE <<"weight must be >= 0 for exercise: ", name, ", set index ", j - 1>>

Rejected(r, message) == resp[r].status = 400 /\ resp[r].error = message

\* the outcome of a create whose top-level fields fail, the message for an
\* empty date being dateRequired
TopLevelOrder(r, dateRequired) ==
    LET t == TrimSpace(Sent(r, "title"))
        d == TrimSpace(Sent(r, "date"))
    IN  /\ t = <<>> => Rejected(r, <<"title is required">>)
        /\ (t # <<>> /\ d = <<>>) => Rejected(r, dateRequired)
        /\ (t # <<>> /\ d # <<>> /\ ~IsYMD(d)) => Rejected(r, <<"date must be YYYY-MM-DD">>)

\* C14 as stated: a create is checked in the order title, date presence, date
\* format, and the first failing check answers 400 with "title is required",
\* "date is required", "date must be YYYY-MM-DD" respectively.
C14_CreateOrderDateRequired ==
    \A r \in Reqs : Finished(r, "POST") => TopLevelOrder(r, <<"date is required">>)

\* C14, amended: the same order and messages, the message for an empty
\* trimmed date being "date is required (YYYY-MM-DD)".
C14_CreateOrderDateRequiredYMD ==
    \A r \in Reqs : Finished(r, "POST") => TopLevelOrder(r, <<"date is required (YYYY-MM-DD)">>)

\* a create with a title, a blank date and a bad exercise list was turned down
\* for its date
C14_Witness ==
    \E r \in Reqs :
        /\ Finished(r, "POST")
        /\ Sent(r, "title") = TitleA /\ Sent(r, "date") = Blank
        /\ ExerciseError(Sent(r, "exercises")) # <<>>
        /\ Rejected(r, <<"date is required (YYYY-MM-DD)">>)

\* C16: a create with a good title and date is answered by the exercise
\* checks: the first failure in exercise order and, within an exercise, in the
\* order empty trimmed name (naming the index), no sets (naming the exercise),
\* then per set in order reps <= 0 before weight < 0 (naming the exercise and
\* the set index); it is accepted when no check fails, the empty list included.
C16_FirstExerciseFailure ==
    \A r \in Reqs :
        (/\ Finished(r, "POST")
         /\ TrimSpace(Sent(r, "title")) # <<>>
         /\ IsYMD(TrimSpace(Sent(r, "date"))))
        => LET e == ExerciseError(Sent(r, "exercises")) IN
           IF e = <<>> THEN resp[r].status = 201 ELSE Rejected(r, e)

\* a list whose second exercise fails both set checks in its only set was
\* turned down for reps, set index 0
C16_Witness ==
    \E r \in Reqs :
        /\ Finished(r, "POST")
        /\ Len(Sent(r, "exercises")) = 2
        /\ ValidExercise(Sent(r, "exercises")[1])
        /\ Sent(r, "exercises")[2].Sets = <<[Reps |-> 0, Weight |-> <<0 - 1>>]>>
        /\ Rejected(r, <<"reps must be > 0 for exercise: ", Squat, ", set index ", 0>>)

\* C17: every exercise name in the store is in trimmed form.
C17_StoredNamesTrimmed ==
    \A id \in DOMAIN workouts :
        \A i \in 1..Len(workouts[id].Exercises) :
            workouts[id].Exercises[i].Name = TrimSpace(workouts[id].Exercises[i].Name)


\* a create p and an update u were sent the same title, date and exercises and
\* both were validated
SameCandidate(p, u) ==
    /\ Finished(p, "POST") /\ Finished(u, "PUT")
    /\ req[u].body = req[p].body
    /\ {"title", "date", "exercises"} \subseteq DOMAIN req[u].body.obj
    /\ resp[u].status # 404

Accepted(r) == resp[r].status \in {200, 201}

\* the message of the update path for a failure the create path words as e
UpdateWording(e) ==
    IF e = <<"title is required">> THEN <<"title cannot be empty">>
    ELSE IF e = <<"date is required (YYYY-MM-DD)">> THEN <<"date cannot be empty">>
    ELSE e

\* C15 as stated: for every title, date and exercises, update validation
\* accepts exactly when create validation does and rejects with the same
\* BadRequest message.
C15_UpdateValidatesAsCreate ==
    \A p, u \in Reqs :
        SameCandidate(p, u) =>
            /\ Accepted(u) <=> Accepted(p)
            /\ resp[u].error = resp[p].error

\* C15, amended: update validation accepts exactly when create validation
\* does, and rejects at the same check with the same message, except that an
\* empty title is worded "title cannot be empty" and an empty date "date
\* cannot be empty".
C15_UpdateValidatesAsCreateReworded ==
    \A p, u \in Reqs :
        SameCandidate(p, u) =>
            /\ Accepted(u) <=> Accepted(p)
            /\ ~Accepted(u) => resp[u].status = 400 /\ resp[p].status = 400
            /\ resp[u].error = UpdateWording(resp[p].error)

\* a create and an update with the same good title and date and the same bad
\* exercise were both turned down with the message of the exercise check
C15_Witness ==
    \E p, u \in Reqs :
        /\ SameCandidate(p, u)
        /\ Sent(u, "title") = TitleA /\ Sent(u, "date") = Date2
        /\ resp[u].status = 400
        /\ resp[u].error = <<"reps must be > 0 for exercise: ", Squat, ", set index ", 0>>
        /\ resp[p].error = resp[u].error


\* the operation table
Listed(method, route) ==
    \/ route = "/health" /\ method = "GET"
    \/ route = "/workouts" /\ method \in {"GET", "POST"}
    \/ route = "/workouts/{id}" /\ method \in {"GET", "PUT", "DELETE"}

\* request r is at the start of its handler and this step is a step of it
Starts(r) == pc[r] = "start" /\ pc'[r] # pc[r]

\* C18: a request whose path is /health, /workouts or /workouts/{id} with a
\* positive id and whose method the operation table does not list for the
\* path is answered 405 at once, and the store is as before.
C18_UnlistedMethod405 ==
    [][\A r \in Reqs :
        (/\ Starts(r)
         /\ req[r].route \in {"/health", "/workouts", "/workouts/{id}"}
         /\ ~Listed(req[r].method, req[r].route))
        => /\ pc'[r] = "done" /\ resp'[r].status = 405
           /\ UNCHANGED <<nextID, workouts>>]_vars

\* s is a decimal numeral of a positive integer
PositiveNumeral(s) ==
    LET d == IF s # <<>> /\ s[1] = "+" THEN Tail(s) ELSE s IN
    /\ d # <<>>
    /\ \A i \in 1..Len(d) : isDigit(d[i])
    /\ \E i \in 1..Len(d) : d[i] # "0"

UnderWorkouts(path) ==
    Len(path) >= 10 /\ SubSeq(path, 1, 10) = WorkoutsPath \o <<"/">>

\* what follows "/workouts/" is one positive numeral, closing slashes aside
OneIdSegment(path) ==
    \E k \in 11..Len(path) :
        /\ PositiveNumeral(SubSeq(path, 11, k))
        /\ \A i \in (k + 1)..Len(path) : path[i] = "/"

MalformedRoute(r) ==
    /\ "path" \in DOMAIN req[r]
    /\ UnderWorkouts(req[r].path)
    /\ ~OneIdSegment(req[r].path)

StoreView == [id \in DOMAIN workouts |-> Deref(workouts[id])]

\* C20: a step outside the store's methods, such as a caller changing a value
\* it passed to Create or got from Create, Get, List or Update, nested
\* exercises and sets included, leaves what Get and List return as it was.
C20_MutationNeverReachesStore ==
    [][workouts' = workouts => StoreView' = StoreView]_vars


\* request r is inside the critical section of Create, Update or Delete
Writing(r) == pc[r] \in {"create_cs", "update_cs", "delete_cs"}

\* request r is inside the critical section of Get or List
Reading(r) == pc[r] \in {"get_cs", "fetch_cs", "list_cs"}

\* C21: at most one request is inside the critical section of Create, Update
\* or Delete, and while one is, none is inside that of Get or List.
C21_WritersExclude ==
    \A w \in Reqs :
        Writing(w) => \A r \in Reqs \ {w} : ~Writing(r) /\ ~Reading(r)

\* a Get and a List are inside their critical sections at the same time
C21_Witness ==
    \E a, b \in Reqs : pc[a] = "get_cs" /\ pc[b] = "list_cs"


\* the body of request r is not JSON for an update request
Undecodable(r) ==
    \/ req[r].body.malformed
    \/ \E f \in DOMAIN req[r].body.obj : f \notin {"title", "date", "notes", "exercises"}

\* C22: an update is checked in the order body decoding, record existence,
\* validation of the merged candidate: a body that does not decode answers 400
\* at once, whether the id exists or not, and otherwise nothing is answered
\* before the record is looked up; at the lookup a missing id answers 404,
\* whether the patch is valid or not, and a stored id with an invalid merged
\* candidate answers 400.
C22_DecodeExistenceValidation ==
    [][\A r \in Reqs :
        /\ (Starts(r) /\ req[r].method = "PUT" /\ req[r].route = "/workouts/{id}")
           => IF Undecodable(r)
              THEN pc'[r] = "done" /\ resp'[r].status = 400
              ELSE pc'[r] # "done" /\ resp'[r] = NoResp
        /\ (pc[r] = "fetch_cs" /\ pc'[r] # pc[r])
           => /\ ~Undecodable(r)
              /\ req[r].id \notin DOMAIN workouts
                    => pc'[r] = "done" /\ resp'[r].status = 404
              /\ (/\ req[r].id \in DOMAIN workouts
                  /\ ~ValidRecord(Patched(workouts[req[r].id], r)))
                    => pc'[r] = "done" /\ resp'[r].status = 400]_vars

\* with no workout 1 in the store, an update whose body does not decode was
\* answered 400 and an update with an empty title and a bad date 404
C22_Witness ==
    \E a, b \in Reqs :
        /\ 1 \notin DOMAIN workouts
        /\ ~(\E c \in Reqs : Answered(c, "POST", 201))
        /\ Answered(a, "PUT", 400) /\ req[a].id = 1 /\ req[a].body.malformed
        /\ Answered(b, "PUT", 404) /\ req[b].id = 1 /\ ~Undecodable(b)
        /\ Sent(b, "title") = Blank /\ Sent(b, "date") = DateBad


\* request r holds the store's lock
Holds(r) == mu.writer = r \/ r \in mu.readers

\* request r has arrived and has not been answered
Active(r) == pc[r] \notin {"idle", "done"}

\* C23: under fair scheduling every request that arrives is answered, so
\* that from some point on no request is left unanswered; a
\* request that was answered holds no lock, a request holds the lock only
\* inside a critical section and so never where it takes it, and as long as a
\* request is unanswered some request can take a step.
C23_EveryRequestCompletes ==
    /\ [](\A r \in Reqs : pc[r] = "done" => ~Holds(r) /\ resp[r] # NoResp)
    /\ []((\E r \in Reqs : Active(r))
            => ENABLED (\E r \in Reqs : Step(r) \/ ListRLock(r) \/ ListCS(r)))
    /\ [](\A r \in Reqs : Holds(r) <=> (Writing(r) \/ Reading(r)))
    /\ <>[](\A r \in Reqs : ~Active(r))

\* every request has been answered, an update and a list among them, and the
\* lock is free
C23_Witness ==
    /\ \A r \in Reqs : pc[r] = "done"
    /\ \E r \in Reqs : Answered(r, "PUT", 200)
    /\ \E r \in Reqs : Answered(r, "GET", 200) /\ req[r].route = "/workouts"
    /\ mu = [writer |-> 0, readers |-> {}]


\* the creates that were answered 201
Created == {r \in Reqs : Answered(r, "POST", 201)}

C25_KeyIsID ==
    /\ [](\A k \in DOMAIN workouts : workouts[k].ID = k /\ k < nextID)
    /\ [][\A r \in Reqs :
            /\ (Completes(r, "get_cs") /\ resp'[r].status = 200)
               => resp'[r].body[1].ID = req[r].id
            /\ Completes(r, "list_cs")
               => LET out == resp'[r].body[1] IN
                  /\ Len(out) = Cardinality(DOMAIN workouts)
                  /\ {out[i].ID : i \in 1..Len(out)} = DOMAIN workouts
                  /\ \A i, j \in 1..Len(out) : out[i].ID = out[j].ID => i = j]_vars

\* a List returned two records, with ids 1 and 2
C25_Witness ==
    \E r \in Reqs :
        /\ Answered(r, "GET", 200) /\ req[r].route = "/workouts"
        /\ Len(Returned(r)) = 2
        /\ {Returned(r)[1].ID, Returned(r)[2].ID} = {1, 2}


\* C26: with a clock that does not go backwards, every stored record has
\* CreatedAt <= UpdatedAt, and no step lowers the UpdatedAt of a record that
\* stays stored, also when an update commits a candidate it built from a
\* snapshot that another update has replaced since.
C26_UpdatedAtMonotone ==
    /\ [](\A id \in DOMAIN workouts : workouts[id].CreatedAt <= workouts[id].UpdatedAt)
    /\ [][\A id \in DOMAIN workouts \cap DOMAIN workouts' :
            workouts[id].UpdatedAt <= workouts'[id].UpdatedAt]_vars

\* two updates of workout 1 built from the same snapshot were both committed,
\* the second at a later time than the first
C26_Witness ==
    \E a, b \in Reqs :
        /\ a # b
        /\ Answered(a, "PUT", 200) /\ Answered(b, "PUT", 200)
        /\ req[a].id = 1 /\ req[b].id = 1
        /\ cur[a] = cur[b]
        /\ Returned(a).UpdatedAt < Returned(b).UpdatedAt
        /\ 1 \in DOMAIN workouts /\ workouts[1].UpdatedAt = Returned(b).UpdatedAt


\* C27: the duration computed at Finish is not negative and is the time the
\* timer spent running, whatever presses came before.
C27_DurationIsRunningTime ==
    timer.durationMs # <<>>
        => timer.durationMs[1] >= 0 /\ timer.durationMs[1] = ranMs

====
